---- MODULE Spec2Model ----
(***************************************************************************)
(* Model of the Mistral FIM language model adapter                         *)
(* (MistralFimLanguageModel: getArgs, doGenerate, doStream, their helpers). *)
(*                                                                         *)
(* Optional values (undefined in the source) are sequences of length 0 or  *)
(* 1: None is undefined, Some(v) is the value v.  Text is a TLA+ string.   *)
(***************************************************************************)
EXTENDS Integers, Sequences, FiniteSets, TLC

VARIABLES pc, call, body, warnings, posts, failure,
          isFirstChunk, activeText, finishReason, usage,
          input, out, origin,
          received, result, flatInput, flatOutput, pair

vars == <<pc, call, body, warnings, posts, failure,
          isFirstChunk, activeText, finishReason, usage,
          input, out, origin,
          received, result, flatInput, flatOutput, pair>>

\* Bounds of the model.
MaxEvents == 3
MaxMsgs == 2
MaxParts == 2

None == <<>>
Some(v) == <<v>>

----------------------------------------------------------------------------
(* Content union: string | null | undefined | list of typed parts.         *)

TextPart(t) == [type |-> "text", text |-> t]
ImagePart == [type |-> "image_url"]
ReferencePart == [type |-> "reference"]
ThinkingPart == [type |-> "thinking"]

StringContent(t) == [kind |-> "string", text |-> t]
NullContent == [kind |-> "null"]
AbsentContent == [kind |-> "undefined"]
ArrayContent(ps) == [kind |-> "array", parts |-> ps]

RECURSIVE JoinText(_)
JoinText(ts) == IF ts = <<>> THEN "" ELSE Head(ts) \o JoinText(Tail(ts))

RECURSIVE TextsOf(_)
TextsOf(ps) ==
  IF ps = <<>> THEN <<>>
  ELSE IF Head(ps).type = "text"
       THEN <<Head(ps).text>> \o TextsOf(Tail(ps))
       ELSE TextsOf(Tail(ps))

extractTextContent_emptyIsUndefined(content) ==
  IF content.kind = "string"
  THEN IF content.text = "" THEN None ELSE Some(content.text)
  ELSE IF content.kind \in {"null", "undefined"} THEN None
  ELSE IF TextsOf(content.parts) # <<>>
       THEN Some(JoinText(TextsOf(content.parts)))
       ELSE None

extractTextContent(content) ==
  IF content.kind = "string" THEN Some(content.text)
  ELSE IF content.kind \in {"null", "undefined"} THEN None
  ELSE IF TextsOf(content.parts) # <<>>
       THEN Some(JoinText(TextsOf(content.parts)))
       ELSE None

----------------------------------------------------------------------------
(* Helpers imported by the language model.                                 *)

mapMistralFinishReason(r) ==
  IF r = Some("stop") THEN "stop"
  ELSE IF r \in {Some("length"), Some("model_length")} THEN "length"
  ELSE IF r = Some("error") THEN "error"
  ELSE "unknown"

getResponseMetadata(value) ==
  [id |-> value.id,
   modelId |-> value.model,
   timestamp |-> IF value.created = None THEN None
                 ELSE Some(value.created[1] * 1000)]

----------------------------------------------------------------------------
(* Provider options: the bag stored under the provider's name.  A value is *)
(* tagged with its JavaScript type.                                        *)

Undef == [t |-> "undefined"]
Str(s) == [t |-> "string", s |-> s]
StrList(ss) == [t |-> "strings", ss |-> ss]
Num(n) == [t |-> "number", n |-> n]

mistralFimProviderOptions_anyStop(bag) ==
  /\ bag.suffix.t \in {"undefined", "string"}
  /\ bag.min_token.t \in {"undefined", "number"}

mistralFimProviderOptions(bag) ==
  /\ bag.stop.t \in {"undefined", "string", "strings"}
  /\ bag.suffix.t \in {"undefined", "string"}
  /\ bag.min_token.t \in {"undefined", "number"}

NoOptions == [stop |-> Undef, suffix |-> Undef, min_token |-> Undef]

\* parseProviderOptions(...) ?? {} : the validated bag without unknown keys.
parseProviderOptions(providerOptions) ==
  IF providerOptions = None THEN [ok |-> TRUE, options |-> NoOptions]
  ELSE IF mistralFimProviderOptions(providerOptions[1])
       THEN [ok |-> TRUE,
             options |-> [stop |-> providerOptions[1].stop,
                          suffix |-> providerOptions[1].suffix,
                          min_token |-> providerOptions[1].min_token]]
       ELSE [ok |-> FALSE, options |-> NoOptions]

----------------------------------------------------------------------------
(* Prompt: a sequence of role-tagged messages.                             *)

FilePart == [type |-> "file"]
SystemMessage(t) == [role |-> "system", systemContent |-> t]
UserMessage(ps) == [role |-> "user", content |-> ps]
AssistantMessage(ps) == [role |-> "assistant", content |-> ps]

RECURSIVE firstTextPart(_)
firstTextPart(parts) ==
  IF parts = <<>> THEN None
  ELSE IF Head(parts).type # "text" THEN firstTextPart(Tail(parts))
  ELSE Some(Head(parts).text)

RECURSIVE extractUserPromptContent_firstUserOnly(_)
extractUserPromptContent_firstUserOnly(prompt) ==
  IF prompt = <<>> THEN None
  ELSE IF Head(prompt).role # "user"
       THEN extractUserPromptContent_firstUserOnly(Tail(prompt))
       ELSE firstTextPart(Head(prompt).content)

RECURSIVE extractUserPromptContent_anyRole(_)
extractUserPromptContent_anyRole(prompt) ==
  IF prompt = <<>> THEN None
  ELSE IF Head(prompt).role = "system"
       THEN Some(Head(prompt).systemContent)
       ELSE IF firstTextPart(Head(prompt).content) # None
            THEN firstTextPart(Head(prompt).content)
            ELSE extractUserPromptContent_anyRole(Tail(prompt))

RECURSIVE extractUserPromptContent(_)
extractUserPromptContent(prompt) ==
  IF prompt = <<>> THEN None
  ELSE IF Head(prompt).role # "user"
       THEN extractUserPromptContent(Tail(prompt))
       ELSE IF firstTextPart(Head(prompt).content) # None
            THEN firstTextPart(Head(prompt).content)
            ELSE extractUserPromptContent(Tail(prompt))

----------------------------------------------------------------------------
(* Request builder.                                                        *)

modelId == "codestral-latest"

UnsupportedSetting(name) == [type |-> "unsupported-setting", setting |-> name]

warnIf(v, name) == IF v # None THEN <<UnsupportedSetting(name)>> ELSE <<>>

getArgsWarnings_noToolChoice(c) ==
  warnIf(c.topK, "topK") \o
  warnIf(c.frequencyPenalty, "frequencyPenalty") \o
  warnIf(c.presencePenalty, "presencePenalty") \o
  warnIf(c.stopSequences, "stopSequences") \o
  warnIf(c.responseFormat, "responseFormat") \o
  warnIf(c.tools, "tools")

getArgsWarnings(c) ==
  warnIf(c.topK, "topK") \o
  warnIf(c.frequencyPenalty, "frequencyPenalty") \o
  warnIf(c.presencePenalty, "presencePenalty") \o
  warnIf(c.stopSequences, "stopSequences") \o
  warnIf(c.responseFormat, "responseFormat") \o
  warnIf(c.tools, "tools") \o
  warnIf(c.toolChoice, "toolChoice")

NoArgs == [model |-> modelId, temperature |-> None, top_p |-> None,
           max_tokens |-> None, stop |-> Undef, random_seed |-> None,
           prompt |-> "", suffix |-> Undef, min_tokens |-> Undef]

getArgs_noPromptCheck(c) ==
  LET parsed == parseProviderOptions(c.providerOptions)
      prefix == extractUserPromptContent(c.prompt)
  IN IF ~parsed.ok
     THEN [ok |-> FALSE, error |-> "InvalidArgumentError",
           args |-> NoArgs, warnings |-> <<>>]
     ELSE [ok |-> TRUE, error |-> "",
           args |-> [model |-> modelId,
                     temperature |-> c.temperature,
                     top_p |-> c.topP,
                     max_tokens |-> c.maxOutputTokens,
                     stop |-> parsed.options.stop,
                     random_seed |-> c.seed,
                     prompt |-> IF prefix = None THEN "" ELSE prefix[1],
                     suffix |-> parsed.options.suffix,
                     min_tokens |-> parsed.options.min_token],
           warnings |-> getArgsWarnings(c)]

getArgs_defaultTemperature(c) ==
  LET parsed == parseProviderOptions(c.providerOptions)
      prefix == extractUserPromptContent(c.prompt)
  IN IF ~parsed.ok
     THEN [ok |-> FALSE, error |-> "InvalidArgumentError",
           args |-> NoArgs, warnings |-> <<>>]
     ELSE IF prefix = None \/ prefix = Some("")
     THEN [ok |-> FALSE, error |-> "Empty prompt",
           args |-> NoArgs, warnings |-> <<>>]
     ELSE [ok |-> TRUE, error |-> "",
           args |-> [model |-> modelId,
                     temperature |-> IF c.temperature = None THEN Some(0)
                                     ELSE c.temperature,
                     top_p |-> c.topP,
                     max_tokens |-> c.maxOutputTokens,
                     stop |-> parsed.options.stop,
                     random_seed |-> c.seed,
                     prompt |-> prefix[1],
                     suffix |-> parsed.options.suffix,
                     min_tokens |-> parsed.options.min_token],
           warnings |-> getArgsWarnings(c)]

\* The JSON document postJsonToApi sends for a body: keys whose value is
\* undefined are left out.
jsonBody(b) ==
  LET tagged == {"stop", "suffix", "min_tokens"}
      optional == {"temperature", "top_p", "max_tokens", "random_seed"}
      present == {k \in DOMAIN b :
                    IF k \in tagged THEN b[k].t # "undefined"
                    ELSE IF k \in optional THEN b[k] # None
                    ELSE TRUE}
  IN [k \in present |-> IF k \in optional THEN b[k][1] ELSE b[k]]

getArgs(c) ==
  LET parsed == parseProviderOptions(c.providerOptions)
      prefix == extractUserPromptContent(c.prompt)
  IN IF ~parsed.ok
     THEN [ok |-> FALSE, error |-> "InvalidArgumentError",
           args |-> NoArgs, warnings |-> <<>>]
     ELSE IF prefix = None \/ prefix = Some("")
     THEN [ok |-> FALSE, error |-> "Empty prompt",
           args |-> NoArgs, warnings |-> <<>>]
     ELSE [ok |-> TRUE, error |-> "",
           args |-> [model |-> modelId,
                     temperature |-> c.temperature,
                     top_p |-> c.topP,
                     max_tokens |-> c.maxOutputTokens,
                     stop |-> parsed.options.stop,
                     random_seed |-> c.seed,
                     prompt |-> prefix[1],
                     suffix |-> parsed.options.suffix,
                     min_tokens |-> parsed.options.min_token],
           warnings |-> getArgsWarnings(c)]

----------------------------------------------------------------------------
(* Call descriptions.                                                      *)

TEST_PROMPT == <<UserMessage(<<TextPart("Hello")>>)>>

BaseCall ==
  [prompt |-> TEST_PROMPT,
   maxOutputTokens |-> None, temperature |-> None, topP |-> None,
   topK |-> None, frequencyPenalty |-> None, presencePenalty |-> None,
   stopSequences |-> None, responseFormat |-> None, seed |-> None,
   providerOptions |-> None, tools |-> None, toolChoice |-> None,
   includeRawChunks |-> FALSE, abortSignal |-> FALSE]

SeqsUpTo(S, n) == UNION {[1..k -> S] : k \in 0..n}

UserParts == {TextPart(""), TextPart("P"), FilePart}

Messages ==
  {SystemMessage("S"), AssistantMessage(<<TextPart("A")>>),
   UserMessage(<<TextPart("Q")>>), UserMessage(<<FilePart, TextPart("Q")>>)}
  \cup {UserMessage(ps) : ps \in SeqsUpTo(UserParts, MaxParts)}

Prompts == SeqsUpTo(Messages, MaxMsgs)

OptionBags ==
  {None,
   Some([stop |-> Str("x"), suffix |-> Str("sfx"), min_token |-> Num(2),
         other |-> Undef]),
   Some([stop |-> StrList(<<"x", "y">>), suffix |-> Undef,
         min_token |-> Undef, other |-> Str("ignored")]),
   Some([stop |-> Num(1), suffix |-> Undef, min_token |-> Undef,
         other |-> Undef]),
   Some([stop |-> Undef, suffix |-> Num(3), min_token |-> Undef,
         other |-> Undef]),
   Some([stop |-> Undef, suffix |-> Undef, min_token |-> Str("2"),
         other |-> Undef])}

UnsupportedSettings ==
  {"topK", "frequencyPenalty", "presencePenalty", "stopSequences",
   "responseFormat", "tools", "toolChoice"}

SupportedSettings == {"temperature", "topP", "maxOutputTokens", "seed"}

Given(S, name, v) == IF name \in S THEN Some(v) ELSE None

\* The call that supplies exactly the settings named in S.
WithSettings(c, S) ==
  [c EXCEPT !.topK = Given(S, "topK", 40),
            !.frequencyPenalty = Given(S, "frequencyPenalty", 41),
            !.presencePenalty = Given(S, "presencePenalty", 42),
            !.stopSequences = Given(S, "stopSequences", 43),
            !.responseFormat = Given(S, "responseFormat", 44),
            !.tools = Given(S, "tools", 45),
            !.toolChoice = Given(S, "toolChoice", 46),
            !.temperature = Given(S, "temperature", 1),
            !.topP = Given(S, "topP", 2),
            !.maxOutputTokens = Given(S, "maxOutputTokens", 3),
            !.seed = Given(S, "seed", 4)]

\* Calls of the request-builder specification: every prompt with default
\* settings, the test prompts with every option bag, with every set of
\* unsupported settings, and with every set of supported settings.
ArgsCalls ==
  {[BaseCall EXCEPT !.prompt = p] : p \in Prompts} \cup
  {WithSettings([BaseCall EXCEPT !.prompt = p, !.providerOptions = o], S)
     : p \in {TEST_PROMPT, <<SystemMessage("S")>>},
       o \in OptionBags, S \in {{}, {"topK", "temperature"}}} \cup
  {WithSettings([BaseCall EXCEPT !.prompt = p], S)
     : p \in {TEST_PROMPT, <<SystemMessage("S")>>},
       S \in SUBSET UnsupportedSettings} \cup
  {WithSettings([BaseCall EXCEPT !.providerOptions = o], S)
     : o \in OptionBags, S \in SUBSET SupportedSettings}

\* Calls of the streaming specification.
StreamCalls ==
  {[BaseCall EXCEPT !.prompt = p, !.includeRawChunks = r,
                    !.abortSignal = a, !.topK = k, !.tools = k]
     : p \in {TEST_PROMPT, <<SystemMessage("S")>>},
       r \in BOOLEAN, a \in BOOLEAN, k \in {None, Some(1)}}

----------------------------------------------------------------------------
(* Transport events: ParseResult<chunk>.                                   *)

Failure(raw, err) == [success |-> FALSE, rawValue |-> raw, error |-> err]
Parsed(raw, value) == [success |-> TRUE, rawValue |-> raw, value |-> value]

Choice(content, reason) ==
  [delta |-> [content |-> content], finish_reason |-> reason]

Usage(p, c, t) ==
  [prompt_tokens |-> p, completion_tokens |-> c, total_tokens |-> t]

U1 == Usage(4, 1, 5)
U2 == Usage(10, 32, 42)

ChunkValue(n, choices, u) ==
  [id |-> Some(n), created |-> Some(1711113), model |-> Some("m-" \o n),
   choices |-> choices, usage |-> u]

BareChunkValue(choices, u) ==
  [id |-> None, created |-> None, model |-> None,
   choices |-> choices, usage |-> u]

TransportEvents ==
  {Failure("r1", "JSONParseError"),
   Failure("r2", "TypeValidationError"),
   Parsed("r3", ChunkValue("a", <<Choice(StringContent("H"), None)>>, None)),
   Parsed("r4", ChunkValue("b", <<Choice(StringContent("i"), None)>>, None)),
   Parsed("r5", ChunkValue("c", <<Choice(StringContent(""), Some("stop"))>>,
                           Some(U1))),
   Parsed("r6", ChunkValue("d", <<Choice(NullContent, Some("length"))>>,
                           Some(U2))),
   Parsed("r7", ChunkValue("e", <<Choice(AbsentContent, None)>>, None)),
   Parsed("r8", ChunkValue("f",
            <<Choice(ArrayContent(<<TextPart("H"), ImagePart, TextPart("i")>>),
                     None)>>, None)),
   Parsed("r9", ChunkValue("g",
            <<Choice(ArrayContent(<<ThinkingPart, TextPart("")>>),
                     Some("error"))>>, None)),
   Parsed("r10", ChunkValue("h",
            <<Choice(ArrayContent(<<ReferencePart>>), Some("weird"))>>, None)),
   Parsed("r11", ChunkValue("j", <<>>, Some(U2))),
   Parsed("r12", ChunkValue("k",
            <<Choice(StringContent("H"), None),
              Choice(StringContent("i"), Some("stop"))>>, None)),
   Parsed("r13", BareChunkValue(<<Choice(StringContent("i"),
                                       Some("model_length"))>>, Some(U1)))}

----------------------------------------------------------------------------
(* doStream: the TransformStream callbacks.                                *)

NoUsage == [inputTokens |-> None, outputTokens |-> None, totalTokens |-> None]

usageUpdate_firstWins(u, value) ==
  IF value.usage # None /\ u = NoUsage
  THEN [inputTokens |-> Some(value.usage[1].prompt_tokens),
        outputTokens |-> Some(value.usage[1].completion_tokens),
        totalTokens |-> Some(value.usage[1].total_tokens)]
  ELSE u

start_noWarnings(w) == <<[type |-> "stream-start", warnings |-> <<>>]>>

start(w) == <<[type |-> "stream-start", warnings |-> w]>>

rawPart_parsedOnly(includeRawChunks, chunk) ==
  IF includeRawChunks /\ chunk.success
  THEN <<[type |-> "raw", rawValue |-> chunk.rawValue]>>
  ELSE <<>>

rawPart(includeRawChunks, chunk) ==
  IF includeRawChunks
  THEN <<[type |-> "raw", rawValue |-> chunk.rawValue]>>
  ELSE <<>>

errorPart_swallowed(chunk) == <<>>

errorPart(chunk) == <<[type |-> "error", error |-> chunk.error]>>

metadataPart_everyChunk(first, value) ==
  <<[type |-> "response-metadata"] @@ getResponseMetadata(value)>>

metadataPart_noTimestamp(first, value) ==
  IF first
  THEN <<[type |-> "response-metadata", id |-> value.id,
          modelId |-> value.model, timestamp |-> None]>>
  ELSE <<>>

metadataPart(first, value) ==
  IF first
  THEN <<[type |-> "response-metadata"] @@ getResponseMetadata(value)>>
  ELSE <<>>

usageUpdate(u, value) ==
  IF value.usage # None
  THEN [inputTokens |-> Some(value.usage[1].prompt_tokens),
        outputTokens |-> Some(value.usage[1].completion_tokens),
        totalTokens |-> Some(value.usage[1].total_tokens)]
  ELSE u

hasText(textContent) == textContent # None /\ textContent[1] # ""

textPart_alwaysStart(active, textContent) ==
  IF hasText(textContent)
  THEN <<[type |-> "text-start", id |-> "0"],
         [type |-> "text-delta", id |-> "0", delta |-> textContent[1]]>>
  ELSE <<>>

textPart(active, textContent) ==
  IF hasText(textContent)
  THEN (IF ~active THEN <<[type |-> "text-start", id |-> "0"]>> ELSE <<>>)
       \o <<[type |-> "text-delta", id |-> "0", delta |-> textContent[1]]>>
  ELSE <<>>

finishUpdate_firstWins(reason, choice) ==
  IF choice.finish_reason # None /\ reason = "unknown"
  THEN mapMistralFinishReason(choice.finish_reason)
  ELSE reason

finishUpdate_unmapped(reason, choice) ==
  IF choice.finish_reason # None
  THEN choice.finish_reason[1]
  ELSE reason

finishUpdate(reason, choice) ==
  IF choice.finish_reason # None
  THEN mapMistralFinishReason(choice.finish_reason)
  ELSE reason

transform_failureSetsError(st, includeRawChunks, chunk) ==
  IF ~chunk.success
  THEN [st EXCEPT !.emitted = rawPart(includeRawChunks, chunk)
                               \o errorPart(chunk),
                  !.finishReason = "error",
                  !.threw = FALSE]
  ELSE
    LET value == chunk.value
        head == rawPart(includeRawChunks, chunk)
                  \o metadataPart(st.isFirstChunk, value)
        u == usageUpdate(st.usage, value)
    IN IF value.choices = <<>>
       THEN [st EXCEPT !.emitted = head, !.isFirstChunk = FALSE,
                       !.usage = u, !.threw = TRUE]
       ELSE
         LET choice == value.choices[1]
             textContent == extractTextContent(choice.delta.content)
         IN [emitted |-> head \o textPart(st.activeText, textContent),
             isFirstChunk |-> FALSE,
             activeText |-> st.activeText \/ hasText(textContent),
             finishReason |-> finishUpdate(st.finishReason, choice),
             usage |-> u,
             threw |-> FALSE]

transform_failureClearsFirst(st, includeRawChunks, chunk) ==
  IF ~chunk.success
  THEN [st EXCEPT !.emitted = rawPart(includeRawChunks, chunk)
                               \o errorPart(chunk),
                  !.isFirstChunk = FALSE,
                  !.threw = FALSE]
  ELSE
    LET value == chunk.value
        head == rawPart(includeRawChunks, chunk)
                  \o metadataPart(st.isFirstChunk, value)
        u == usageUpdate(st.usage, value)
    IN IF value.choices = <<>>
       THEN [st EXCEPT !.emitted = head, !.isFirstChunk = FALSE,
                       !.usage = u, !.threw = TRUE]
       ELSE
         LET choice == value.choices[1]
             textContent == extractTextContent(choice.delta.content)
         IN [emitted |-> head \o textPart(st.activeText, textContent),
             isFirstChunk |-> FALSE,
             activeText |-> st.activeText \/ hasText(textContent),
             finishReason |-> finishUpdate(st.finishReason, choice),
             usage |-> u,
             threw |-> FALSE]

\* One run of transform(chunk, controller) from the tracked state st:
\* the events it enqueues, the tracked state it leaves, whether it threw.
transform(st, includeRawChunks, chunk) ==
  IF ~chunk.success
  THEN [st EXCEPT !.emitted = rawPart(includeRawChunks, chunk)
                               \o errorPart(chunk),
                  !.threw = FALSE]
  ELSE
    LET value == chunk.value
        head == rawPart(includeRawChunks, chunk)
                  \o metadataPart(st.isFirstChunk, value)
        u == usageUpdate(st.usage, value)
    IN IF value.choices = <<>>
       THEN \* choices[0] is undefined: reading its delta throws a TypeError
            [st EXCEPT !.emitted = head, !.isFirstChunk = FALSE,
                       !.usage = u, !.threw = TRUE]
       ELSE
         LET choice == value.choices[1]
             textContent == extractTextContent(choice.delta.content)
         IN [emitted |-> head \o textPart(st.activeText, textContent),
             isFirstChunk |-> FALSE,
             activeText |-> st.activeText \/ hasText(textContent),
             finishReason |-> finishUpdate(st.finishReason, choice),
             usage |-> u,
             threw |-> FALSE]

flush(active, reason, u) ==
  (IF active THEN <<[type |-> "text-end", id |-> "0"]>> ELSE <<>>)
  \o <<[type |-> "finish", finishReason |-> reason, usage |-> u]>>

----------------------------------------------------------------------------
(* doGenerate: the synchronous response and its normalisation.             *)

MessageChoice(content, reason) ==
  [message |-> [role |-> "assistant", content |-> content],
   finish_reason |-> reason]

FullResponse(choices, u) ==
  [id |-> Some("16362f24"), created |-> Some(1711113),
   model |-> Some("mistral-small-latest"),
   choices |-> choices, usage |-> u, headers |-> "h1"]

BareResponse(choices, u) ==
  [id |-> None, created |-> None, model |-> None,
   choices |-> choices, usage |-> u, headers |-> "h2"]

ContentParts ==
  {TextPart(""), TextPart("H"), TextPart("i"), TextPart("Hi"),
   ImagePart, ReferencePart, ThinkingPart}

Contents ==
  {NullContent, AbsentContent}
  \cup {StringContent(t) : t \in {"", "H", "i", "Hi"}}
  \cup {ArrayContent(ps) : ps \in SeqsUpTo(ContentParts, MaxParts)}

WireReasons ==
  {None, Some("stop"), Some("length"), Some("model_length"), Some("error"),
   Some("weird")}

Responses ==
  {FullResponse(<<MessageChoice(c, Some("stop"))>>, U1) : c \in Contents}
  \cup {FullResponse(<<MessageChoice(StringContent("Hi"), r)>>, u)
          : r \in WireReasons, u \in {U1, U2}}
  \cup {BareResponse(<<MessageChoice(StringContent("Hi"), r)>>, u)
          : r \in WireReasons, u \in {U1, U2}}
  \cup {FullResponse(<<>>, U1),
        FullResponse(<<MessageChoice(StringContent("H"), Some("length")),
                       MessageChoice(StringContent("i"), Some("stop"))>>, U2)}

TextItem(t) == [type |-> "text", text |-> t]

IsNonEmptyTextPart(part) == part.type = "text" /\ part.text # ""

generateContent_firstTextPart(content) ==
  IF content.kind = "array"
  THEN IF SelectSeq(content.parts, IsNonEmptyTextPart) = <<>> THEN <<>>
       ELSE <<TextItem(SelectSeq(content.parts, IsNonEmptyTextPart)[1].text)>>
  ELSE IF hasText(extractTextContent(content))
       THEN <<TextItem(extractTextContent(content)[1])>>
       ELSE <<>>

generateContent_joined(content) ==
  IF hasText(extractTextContent(content))
  THEN <<TextItem(extractTextContent(content)[1])>>
  ELSE <<>>

generateContent(content) ==
  IF content.kind = "array"
  THEN [i \in 1..Len(SelectSeq(content.parts, IsNonEmptyTextPart))
          |-> TextItem(SelectSeq(content.parts, IsNonEmptyTextPart)[i].text)]
  ELSE IF hasText(extractTextContent(content))
       THEN <<TextItem(extractTextContent(content)[1])>>
       ELSE <<>>

generateUsage_totalAsOutput(u) ==
  [inputTokens |-> Some(u.prompt_tokens),
   outputTokens |-> Some(u.total_tokens),
   totalTokens |-> Some(u.total_tokens)]

generateUsage(u) ==
  [inputTokens |-> Some(u.prompt_tokens),
   outputTokens |-> Some(u.completion_tokens),
   totalTokens |-> Some(u.total_tokens)]

\* The JSON payload of the response as postJsonToApi hands it back.
rawResponse(response) ==
  [id |-> response.id, created |-> response.created,
   model |-> response.model, choices |-> response.choices,
   usage |-> response.usage]

doGenerateResult_lastChoiceReason(b, w, response) ==
  [content |-> generateContent(response.choices[1].message.content),
   finishReason |-> mapMistralFinishReason(
                      response.choices[Len(response.choices)].finish_reason),
   usage |-> generateUsage(response.usage),
   request |-> [body |-> b],
   response |-> [headers |-> response.headers,
                 body |-> rawResponse(response)]
                  @@ getResponseMetadata(response),
   warnings |-> w]

\* The value doGenerate returns for a response with a first choice.
doGenerateResult(b, w, response) ==
  [content |-> generateContent(response.choices[1].message.content),
   finishReason |-> mapMistralFinishReason(response.choices[1].finish_reason),
   usage |-> generateUsage(response.usage),
   request |-> [body |-> b],
   response |-> [headers |-> response.headers,
                 body |-> rawResponse(response)]
                  @@ getResponseMetadata(response),
   warnings |-> w]

----------------------------------------------------------------------------
(* State machine.                                                          *)

InitState(calls) ==
  /\ pc = "idle"
  /\ call \in calls
  /\ body = None
  /\ warnings = <<>>
  /\ posts = 0
  /\ failure = None
  /\ isFirstChunk = TRUE
  /\ activeText = FALSE
  /\ finishReason = "unknown"
  /\ usage = NoUsage
  /\ input = <<>>
  /\ out = <<>>
  /\ origin = <<>>
  /\ received = None
  /\ result = None
  /\ flatInput = NullContent
  /\ flatOutput = None
  /\ pair = <<>>

Init == InitState(StreamCalls)

sideVars == <<received, result, flatInput, flatOutput, pair>>

streamVars == <<isFirstChunk, activeText, finishReason, usage,
                input, out, origin>>

\* doStream up to the POST: getArgs, then postJsonToApi is issued.
DoStream ==
  /\ pc = "idle"
  /\ LET r == getArgs(call)
     IN IF r.ok
        THEN /\ body' = Some([stream |-> TRUE] @@ r.args)
             /\ warnings' = r.warnings
             /\ posts' = posts + 1
             /\ pc' = "posting"
             /\ failure' = failure
        ELSE /\ pc' = "rejected"
             /\ failure' = Some(r.error)
             /\ UNCHANGED <<body, warnings, posts>>
  /\ UNCHANGED <<call, sideVars, streamVars>>

\* The POST fails (HTTP error, network error, abort before the response).
PostRejects ==
  /\ pc \in {"posting", "generating"}
  /\ pc' = "rejected"
  /\ failure' = Some("APICallError")
  /\ UNCHANGED <<call, sideVars, body, warnings, posts, streamVars>>

\* The POST succeeds: the tracked state is initialised, the transform
\* stream is constructed and its start callback runs.
PostResolves ==
  /\ pc = "posting"
  /\ pc' = "streaming"
  /\ finishReason' = "unknown"
  /\ usage' = NoUsage
  /\ isFirstChunk' = TRUE
  /\ activeText' = FALSE
  /\ out' = start(warnings)
  /\ origin' = <<0>>
  /\ UNCHANGED <<call, sideVars, body, warnings, posts, failure, input>>

\* The transport delivers one event and transform runs on it.
Transform(chunk) ==
  /\ pc = "streaming"
  /\ Len(input) < MaxEvents
  /\ LET st == [emitted |-> <<>>, isFirstChunk |-> isFirstChunk,
                activeText |-> activeText, finishReason |-> finishReason,
                usage |-> usage, threw |-> FALSE]
         r == transform(st, call.includeRawChunks, chunk)
     IN /\ input' = Append(input, chunk)
        /\ out' = out \o r.emitted
        /\ origin' = origin \o [i \in 1..Len(r.emitted) |-> Len(input) + 1]
        /\ isFirstChunk' = r.isFirstChunk
        /\ activeText' = r.activeText
        /\ finishReason' = r.finishReason
        /\ usage' = r.usage
        /\ pc' = IF r.threw THEN "errored" ELSE "streaming"
  /\ UNCHANGED <<call, sideVars, body, warnings, posts, failure>>

\* The transport's event sequence ends: the writable side closes and
\* flush runs.
TransportCloses ==
  /\ pc = "streaming"
  /\ out' = out \o flush(activeText, finishReason, usage)
  /\ origin' = origin \o [i \in 1..Len(flush(activeText, finishReason, usage))
                            |-> 0]
  /\ pc' = "closed"
  /\ UNCHANGED <<call, sideVars, body, warnings, posts, failure,
                 isFirstChunk, activeText, finishReason, usage, input>>

\* The abort signal fires mid-stream: the response body errors, the pipe
\* aborts the transform stream, and flush is not called.
Abort ==
  /\ pc = "streaming"
  /\ call.abortSignal
  /\ pc' = "aborted"
  /\ UNCHANGED <<call, sideVars, body, warnings, posts, failure, streamVars>>

\* doGenerate up to the POST: getArgs, then postJsonToApi is issued.
DoGenerate ==
  /\ pc = "idle"
  /\ LET r == getArgs(call)
     IN IF r.ok
        THEN /\ body' = Some(r.args)
             /\ warnings' = r.warnings
             /\ posts' = posts + 1
             /\ pc' = "generating"
             /\ failure' = failure
        ELSE /\ pc' = "rejected"
             /\ failure' = Some(r.error)
             /\ UNCHANGED <<body, warnings, posts>>
  /\ UNCHANGED <<call, sideVars, streamVars>>

\* The POST of doGenerate succeeds with a schema-valid response, which is
\* normalised; reading the message of a missing first choice throws.
GenerateResolves(response) ==
  /\ pc = "generating"
  /\ received' = Some(response)
  /\ IF response.choices = <<>>
     THEN /\ pc' = "rejected"
          /\ failure' = Some("TypeError")
          /\ result' = result
     ELSE /\ pc' = "generated"
          /\ failure' = failure
          /\ result' = Some(doGenerateResult(body[1], warnings, response))
  /\ UNCHANGED <<call, flatInput, flatOutput, pair, body, warnings, posts,
                 streamVars>>

Next ==
  \/ DoStream
  \/ DoGenerate
  \/ \E response \in Responses : GenerateResolves(response)
  \/ PostRejects
  \/ PostResolves
  \/ \E chunk \in TransportEvents : Transform(chunk)
  \/ TransportCloses
  \/ Abort

Spec == Init /\ [][Next]_vars

----------------------------------------------------------------------------
(* Request builder on its own: getArgs applied to a call description.      *)

InitArgs == InitState(ArgsCalls)

GetArgs ==
  /\ pc = "idle"
  /\ LET r == getArgs(call)
     IN IF r.ok
        THEN /\ body' = Some(r.args)
             /\ warnings' = r.warnings
             /\ pc' = "built"
             /\ failure' = failure
        ELSE /\ pc' = "rejected"
             /\ failure' = Some(r.error)
             /\ UNCHANGED <<body, warnings>>
  /\ UNCHANGED <<call, sideVars, posts, streamVars>>

NextArgs ==
  \/ GetArgs
  \/ DoStream
  \/ DoGenerate

SpecArgs == InitArgs /\ [][NextArgs]_vars

----------------------------------------------------------------------------
(* Content flattening on its own: extractTextContent applied to a content. *)

InitExtract ==
  /\ pc = "idle"
  /\ call = BaseCall
  /\ body = None
  /\ warnings = <<>>
  /\ posts = 0
  /\ failure = None
  /\ isFirstChunk = TRUE
  /\ activeText = FALSE
  /\ finishReason = "unknown"
  /\ usage = NoUsage
  /\ input = <<>>
  /\ out = <<>>
  /\ origin = <<>>
  /\ received = None
  /\ result = None
  /\ flatInput \in Contents
  /\ flatOutput = None
  /\ pair = <<>>

ExtractTextContent ==
  /\ pc = "idle"
  /\ flatOutput' = extractTextContent(flatInput)
  /\ pc' = "extracted"
  /\ UNCHANGED <<call, body, warnings, posts, failure, streamVars,
                 received, result, flatInput, pair>>

NextExtract == ExtractTextContent

SpecExtract == InitExtract /\ [][NextExtract]_vars

----------------------------------------------------------------------------
(* Two doStream calls on one model instance, their transport events        *)
(* interleaved.                                                            *)

MaxPairEvents == 2

PairCalls ==
  {BaseCall,
   [BaseCall EXCEPT !.includeRawChunks = TRUE, !.topK = Some(1),
                    !.tools = Some(1)]}

PairEvents ==
  {ev \in TransportEvents : ev.rawValue \in {"r1", "r3", "r5", "r13"}}

\* The tracked state as doStream declares it.
Tracked ==
  [isFirstChunk |-> TRUE, activeText |-> FALSE,
   finishReason |-> "unknown", usage |-> NoUsage]

closureOf_instance(s) == 1

\* The tracked variables are locals of doStream, captured by the callbacks
\* of the call's own transform stream: call s has closure s.
closureOf(s) == s

InitPair ==
  /\ pc = "idle"
  /\ call = BaseCall
  /\ body = None
  /\ warnings = <<>>
  /\ posts = 0
  /\ failure = None
  /\ isFirstChunk = TRUE
  /\ activeText = FALSE
  /\ finishReason = "unknown"
  /\ usage = NoUsage
  /\ input = <<>>
  /\ out = <<>>
  /\ origin = <<>>
  /\ received = None
  /\ result = None
  /\ flatInput = NullContent
  /\ flatOutput = None
  /\ \E c1 \in PairCalls : \E c2 \in PairCalls :
       pair = [calls |-> <<c1, c2>>,
               pcs |-> <<"idle", "idle">>,
               warnings |-> << <<>>, <<>> >>,
               tracked |-> <<Tracked, Tracked>>,
               inputs |-> << <<>>, <<>> >>,
               outs |-> << <<>>, <<>> >>]

pairFrame ==
  <<pc, call, body, warnings, posts, failure, streamVars,
    received, result, flatInput, flatOutput>>

\* Call s runs doStream: getArgs, the POST resolves, the tracked state is
\* declared, the transform stream is constructed and start runs.
DoStreamOf(s) ==
  /\ pair.pcs[s] = "idle"
  /\ LET r == getArgs(pair.calls[s])
     IN IF r.ok
        THEN pair' = [pair EXCEPT !.pcs[s] = "streaming",
                                  !.warnings[s] = r.warnings,
                                  !.tracked[closureOf(s)] = Tracked,
                                  !.outs[s] = start(r.warnings)]
        ELSE pair' = [pair EXCEPT !.pcs[s] = "rejected"]
  /\ UNCHANGED pairFrame

\* The transport of call s delivers one event and its transform runs.
TransformOf(s, chunk) ==
  /\ pair.pcs[s] = "streaming"
  /\ Len(pair.inputs[s]) < MaxPairEvents
  /\ LET t == pair.tracked[closureOf(s)]
         st == [emitted |-> <<>>, isFirstChunk |-> t.isFirstChunk,
                activeText |-> t.activeText,
                finishReason |-> t.finishReason,
                usage |-> t.usage, threw |-> FALSE]
         r == transform(st, pair.calls[s].includeRawChunks, chunk)
     IN pair' = [pair EXCEPT
                   !.inputs[s] = Append(@, chunk),
                   !.outs[s] = @ \o r.emitted,
                   !.tracked[closureOf(s)] =
                      [isFirstChunk |-> r.isFirstChunk,
                       activeText |-> r.activeText,
                       finishReason |-> r.finishReason,
                       usage |-> r.usage],
                   !.pcs[s] = IF r.threw THEN "errored" ELSE "streaming"]
  /\ UNCHANGED pairFrame

\* The transport of call s ends and its flush runs.
TransportClosesOf(s) ==
  /\ pair.pcs[s] = "streaming"
  /\ LET t == pair.tracked[closureOf(s)]
     IN pair' = [pair EXCEPT
                   !.outs[s] = @ \o flush(t.activeText, t.finishReason,
                                          t.usage),
                   !.pcs[s] = "closed"]
  /\ UNCHANGED pairFrame

NextPair ==
  \/ \E s \in {1, 2} : DoStreamOf(s)
  \/ \E s \in {1, 2} : \E chunk \in PairEvents : TransformOf(s, chunk)
  \/ \E s \in {1, 2} : TransportClosesOf(s)

SpecPair == InitPair /\ [][NextPair]_vars

----------------------------------------------------------------------------
(* Vocabulary of the properties.                                           *)

Idx(type) == {p \in 1..Len(out) : out[p].type = type}
Count(type) == Cardinality(Idx(type))
Started == pc \in {"streaming", "closed", "errored", "aborted"}
Ended == pc \in {"closed", "errored"}
Min(S) == CHOOSE m \in S : \A n \in S : m <= n
Max(S) == CHOOSE m \in S : \A n \in S : n <= m

\* The delta text a transport event carries on choices[0], if any.
DeltaText(ev) ==
  IF ev.success /\ ev.value.choices # <<>>
  THEN extractTextContent(ev.value.choices[1].delta.content)
  ELSE None
YieldsText(ev) == DeltaText(ev) # None /\ DeltaText(ev)[1] # ""
TextIdx == {i \in 1..Len(input) : YieldsText(input[i])}
ParsedIdx == {i \in 1..Len(input) : input[i].success}

RECURSIVE TextsFrom(_)
TextsFrom(evs) ==
  IF evs = <<>> THEN <<>>
  ELSE IF YieldsText(Head(evs))
       THEN <<DeltaText(Head(evs))[1]>> \o TextsFrom(Tail(evs))
       ELSE TextsFrom(Tail(evs))

IsSpanEvent(e) == e.type \in {"text-start", "text-delta", "text-end", "finish"}
IsDelta(e) == e.type = "text-delta"
IsRaw(e) == e.type = "raw"
SpanTypes == [p \in 1..Len(SelectSeq(out, IsSpanEvent))
                |-> SelectSeq(out, IsSpanEvent)[p].type]
Deltas == [p \in 1..Len(SelectSeq(out, IsDelta))
             |-> SelectSeq(out, IsDelta)[p].delta]

----------------------------------------------------------------------------
(* Properties.                                                             *)

\* C1: once the transport's events have been consumed and the stream has
\* ended, the output contains exactly one finish event and it is the last
\* event, whatever parse failures and schema-accepted chunks came before.
C1_FinishEndsEveryStream ==
  Ended => /\ Count("finish") = 1
           /\ out[Len(out)].type = "finish"

\* C2: for successfully parsed chunks of which at least one carries
\* non-empty delta text, the output has one text-start, one text-delta per
\* text-carrying chunk in chunk order, one text-end and one finish, in that
\* order.
C2_TextSpanBracketsDeltas ==
  (Ended /\ ParsedIdx = 1..Len(input) /\ TextIdx # {})
    => /\ SpanTypes = <<"text-start">>
                      \o [i \in 1..Cardinality(TextIdx) |-> "text-delta"]
                      \o <<"text-end", "finish">>
       /\ Deltas = TextsFrom(input)
       /\ JoinText(Deltas) = JoinText(TextsFrom(input))

\* C3: a stream in which no transport event yields non-empty delta text
\* emits no text-start, text-delta or text-end, and still exactly one
\* stream-start and exactly one finish.
C3_NoTextNoSpan ==
  (Ended /\ TextIdx = {})
    => /\ Count("text-start") = 0
       /\ Count("text-delta") = 0
       /\ Count("text-end") = 0
       /\ Count("stream-start") = 1
       /\ Count("finish") = 1

SettingNames == <<"topK", "frequencyPenalty", "presencePenalty",
                  "stopSequences", "responseFormat", "tools", "toolChoice">>
IsSupplied(name) == call[name] # None
ExpectedWarnings ==
  [i \in 1..Len(SelectSeq(SettingNames, IsSupplied))
     |-> [type |-> "unsupported-setting",
          setting |-> SelectSeq(SettingNames, IsSupplied)[i]]]

\* C4: exactly one stream-start is emitted per stream, it is the first
\* event of the output, and it carries the warnings of the call's
\* unsupported settings; without a stream nothing is emitted.
C4_StreamStartFirst ==
  IF Started
  THEN /\ out # <<>>
       /\ out[1] = [type |-> "stream-start", warnings |-> ExpectedWarnings]
       /\ Idx("stream-start") = {1}
  ELSE out = <<>>

C4_Witness ==
  /\ pc = "closed"
  /\ call.includeRawChunks
  /\ out[1].warnings # <<>>
  /\ Len(input) >= 2
  /\ out[2].type = "raw"

\* C5: with includeRawChunks the raw events are, in order, the payloads of
\* the transport events (failed ones included), and the raw event of a
\* transport event precedes every other event derived from it; without
\* includeRawChunks no raw event is emitted.
C5_RawPerTransportEvent ==
  IF call.includeRawChunks
  THEN /\ Len(SelectSeq(out, IsRaw)) = Len(input)
       /\ \A i \in 1..Len(input) :
            /\ SelectSeq(out, IsRaw)[i].rawValue = input[i].rawValue
            /\ \E p \in Idx("raw") :
                 /\ origin[p] = i
                 /\ \A q \in 1..Len(out) : origin[q] = i /\ q # p => p < q
  ELSE Idx("raw") = {}

C5_Witness ==
  /\ pc = "closed"
  /\ call.includeRawChunks
  /\ Len(input) = 3
  /\ ~input[1].success
  /\ YieldsText(input[2])
  /\ Count("raw") = 3
  /\ Count("error") = 1
  /\ Count("text-delta") >= 1

UsageIdx ==
  {i \in 1..Len(input) : input[i].success /\ input[i].value.usage # None}
LastUsage ==
  IF UsageIdx = {} THEN NoUsage
  ELSE LET u == input[Max(UsageIdx)].value.usage[1]
       IN [inputTokens |-> <<u.prompt_tokens>>,
           outputTokens |-> <<u.completion_tokens>>,
           totalTokens |-> <<u.total_tokens>>]

\* C6: the usage of the finish event is the usage record of the last
\* chunk that carried one, with prompt_tokens, completion_tokens and
\* total_tokens as inputTokens, outputTokens and totalTokens; all three are
\* undefined when no chunk carried a usage record.
C6_FinishUsageIsLastSeen ==
  \A p \in Idx("finish") : out[p].usage = LastUsage

C6_Witness ==
  /\ pc = "closed"
  /\ Len(input) = 3
  /\ UsageIdx = {1, 2}
  /\ input[1].value.usage # input[2].value.usage
  /\ out[Len(out)].type = "finish"
  /\ out[Len(out)].usage.totalTokens = <<input[2].value.usage[1].total_tokens>>

FailureStep ==
  /\ Len(input') = Len(input) + 1
  /\ ~input'[Len(input')].success

\* C7: a transport event that failed to parse produces its raw event (when
\* raw passthrough is on) and then exactly one error event carrying the
\* parse failure, nothing else; the stream stays open and the tracked
\* state is as before, so later events are processed as they would be.
C7_ParseFailureIsIsolated ==
  [][FailureStep =>
       /\ out' = out
            \o (IF call.includeRawChunks
                THEN <<[type |-> "raw",
                        rawValue |-> input'[Len(input')].rawValue]>>
                ELSE <<>>)
            \o <<[type |-> "error", error |-> input'[Len(input')].error]>>
       /\ pc' = "streaming"
       /\ UNCHANGED <<isFirstChunk, activeText, finishReason, usage>>]_vars

C7_Witness ==
  /\ pc = "closed"
  /\ Len(input) = 3
  /\ YieldsText(input[1])
  /\ ~input[2].success
  /\ YieldsText(input[3])
  /\ Count("error") = 1
  /\ Count("text-delta") = 2
  /\ Count("finish") = 1

\* C8: when the abort signal ends the transport mid-stream, the
\* end-of-stream step still runs: text-end for an open span, then exactly
\* one finish event as the last event.
C8_AbortStillFinishes ==
  pc = "aborted"
    => /\ Count("finish") = 1
       /\ out[Len(out)].type = "finish"
       /\ activeText => Count("text-end") = 1

\* C9 as stated: response-metadata is emitted exactly once per stream, on
\* the first chunk.
C9_MetadataExactlyOnceOnFirstChunk ==
  pc = "closed"
    => /\ Count("response-metadata") = 1
       /\ \A p \in Idx("response-metadata") : origin[p] = 1

\* C9 amended: response-metadata is emitted at most once per stream:
\* exactly once, from the first successfully parsed chunk, when some
\* transport event parsed, and not at all when none did.
C9_MetadataOnFirstParsedChunk ==
  IF ParsedIdx = {}
  THEN Count("response-metadata") = 0
  ELSE /\ Count("response-metadata") = 1
       /\ \A p \in Idx("response-metadata") :
            /\ origin[p] = Min(ParsedIdx)
            /\ out[p].id = input[Min(ParsedIdx)].value.id

C9_Witness ==
  /\ pc = "closed"
  /\ Len(input) = 3
  /\ ~input[1].success
  /\ input[2].success
  /\ input[3].success
  /\ Count("response-metadata") = 1

\* Position (m, k) holds the first text part of the user messages.
IsUserText(m, k) ==
  /\ call.prompt[m].role = "user"
  /\ k \in 1..Len(call.prompt[m].content)
  /\ call.prompt[m].content[k].type = "text"
IsFirstUserText(m, k) ==
  /\ IsUserText(m, k)
  /\ \A n \in 1..m : \A j \in 1..MaxParts :
       IsUserText(n, j) => n = m /\ k <= j

\* C10: when the first text part of the user messages is non-empty, the
\* build is not refused for an empty prompt and the prompt of the wire
\* request is exactly that text, whatever the other messages and parts.
C10_PromptIsFirstUserText ==
  \A m \in 1..Len(call.prompt) : \A k \in 1..MaxParts :
    (IsFirstUserText(m, k) /\ call.prompt[m].content[k].text # "")
      => /\ pc = "built" => body[1].prompt = call.prompt[m].content[k].text
         /\ pc = "rejected" => failure # Some("Empty prompt")

C10_Witness ==
  /\ pc = "built"
  /\ Len(call.prompt) = 2
  /\ call.prompt[1] = UserMessage(<<FilePart>>)
  /\ call.prompt[2] = UserMessage(<<FilePart, TextPart("Q")>>)
  /\ body[1].prompt = "Q"

HasUserText ==
  \E m \in 1..Len(call.prompt) : \E k \in 1..MaxParts : IsUserText(m, k)
OptionsValid ==
  \/ call.providerOptions = None
  \/ /\ call.providerOptions[1].stop.t \in {"undefined", "string", "strings"}
     /\ call.providerOptions[1].suffix.t \in {"undefined", "string"}
     /\ call.providerOptions[1].min_token.t \in {"undefined", "number"}
Built == pc \in {"built", "posting", "generating"}

\* C11 as stated: a call without any user text part fails with the
\* empty-prompt error and performs no HTTP POST.
C11_NoUserTextEmptyPromptError ==
  ~HasUserText
    => /\ posts = 0
       /\ ~Built
       /\ pc = "rejected" => failure = Some("Empty prompt")

\* C11 amended: a call without any user text part fails before the HTTP
\* POST is performed, with the empty-prompt error when the provider options
\* pass validation and with the validation error when they do not.
C11_NoUserTextNoPost ==
  ~HasUserText
    => /\ posts = 0
       /\ ~Built
       /\ pc = "rejected"
            => failure = IF OptionsValid THEN Some("Empty prompt")
                         ELSE Some("InvalidArgumentError")

C11_Witness ==
  /\ pc = "rejected"
  /\ call.prompt = <<AssistantMessage(<<TextPart("A")>>),
                     UserMessage(<<FilePart>>)>>
  /\ failure = Some("Empty prompt")
  /\ posts = 0
  /\ body = None

WarningsFor(name) == {i \in 1..Len(warnings) : warnings[i].setting = name}
Explained ==
  \/ failure = Some("InvalidArgumentError") /\ ~OptionsValid
  \/ /\ failure = Some("Empty prompt")
     /\ extractUserPromptContent(call.prompt) \in {None, Some("")}

\* C12: the warning list has exactly one unsupported-setting warning per
\* supplied setting among topK, frequencyPenalty, presencePenalty,
\* stopSequences, responseFormat, tools and toolChoice, and none for the
\* others; none of their values reaches the wire request; a build fails
\* only for its prompt or its provider options.
C12_OneWarningPerUnsupportedSetting ==
  /\ Built =>
       /\ \A name \in UnsupportedSettings :
            Cardinality(WarningsFor(name))
              = IF call[name] # None THEN 1 ELSE 0
       /\ \A i \in 1..Len(warnings) :
            /\ warnings[i].type = "unsupported-setting"
            /\ warnings[i].setting \in UnsupportedSettings
       /\ DOMAIN jsonBody(body[1])
            \subseteq {"model", "prompt", "temperature", "top_p",
                       "max_tokens", "random_seed", "stop", "suffix",
                       "min_tokens", "stream"}
       /\ \A f \in {"temperature", "top_p", "max_tokens", "random_seed"} :
            \A name \in UnsupportedSettings :
              call[name] # None => body[1][f] # call[name]
       /\ body[1].stop = IF call.providerOptions = None THEN Undef
                         ELSE call.providerOptions[1].stop
  /\ pc = "rejected" => Explained

C12_Witness ==
  /\ pc = "posting"
  /\ {name \in UnsupportedSettings : call[name] # None}
       = {"topK", "stopSequences", "toolChoice"}
  /\ Len(warnings) = 3
  /\ DOMAIN jsonBody(body[1]) = {"model", "prompt", "stream"}

SuppliedOption(k) ==
  call.providerOptions # None /\ call.providerOptions[1][k].t # "undefined"
Carries(w, field, supplied) ==
  /\ field \in DOMAIN w <=> supplied # None
  /\ supplied # None => w[field] = supplied[1]
CarriesOption(w, field, k) ==
  /\ field \in DOMAIN w <=> SuppliedOption(k)
  /\ SuppliedOption(k) => w[field] = call.providerOptions[1][k]

\* C17: the JSON body of the POST always has model and prompt, has
\* temperature, top_p, max_tokens, random_seed, stop, suffix and min_tokens
\* exactly when their source value was supplied (with that value, never a
\* default), has stream = true in doStream and no stream key in doGenerate.
C17_WireRequestFields ==
  pc \in {"posting", "generating"} =>
    LET w == jsonBody(body[1])
    IN /\ {"model", "prompt"} \subseteq DOMAIN w
       /\ w.model = modelId
       /\ Carries(w, "temperature", call.temperature)
       /\ Carries(w, "top_p", call.topP)
       /\ Carries(w, "max_tokens", call.maxOutputTokens)
       /\ Carries(w, "random_seed", call.seed)
       /\ CarriesOption(w, "stop", "stop")
       /\ CarriesOption(w, "suffix", "suffix")
       /\ CarriesOption(w, "min_tokens", "min_token")
       /\ DOMAIN w \subseteq {"model", "prompt", "temperature", "top_p",
                              "max_tokens", "random_seed", "stop", "suffix",
                              "min_tokens", "stream"}
       /\ pc = "posting" => "stream" \in DOMAIN w /\ w.stream = TRUE
       /\ pc = "generating" => "stream" \notin DOMAIN w

C17_Witness ==
  /\ pc = "posting"
  /\ call.temperature = None
  /\ call.seed = Some(4)
  /\ call.maxOutputTokens = Some(3)
  /\ DOMAIN jsonBody(body[1])
       = {"model", "prompt", "max_tokens", "random_seed", "stop", "suffix",
          "min_tokens", "stream"}
  /\ jsonBody(body[1]).random_seed = 4

\* The finish-reason table of the wire format.
ReasonTable(r) ==
  CASE r = <<"stop">> -> "stop"
    [] r = <<"length">> -> "length"
    [] r = <<"model_length">> -> "length"
    [] r = <<"error">> -> "error"
    [] OTHER -> "unknown"

ReasonStep ==
  /\ Len(input') = Len(input) + 1
  /\ input'[Len(input')].success
  /\ input'[Len(input')].value.choices # <<>>
  /\ input'[Len(input')].value.choices[1].finish_reason # None

\* C13: the finish-reason mapping sends stop to stop, length and
\* model_length to length, error to error and anything else, null
\* included, to unknown; doGenerate reports the mapped reason of
\* choices[0], and doStream tracks and reports only mapped reasons.
C13_FinishReasonMapping ==
  /\ [](/\ \A r \in WireReasons : mapMistralFinishReason(r) = ReasonTable(r)
        /\ finishReason \in {"stop", "length", "error", "unknown"}
        /\ pc = "generated" =>
             result[1].finishReason
               = ReasonTable(received[1].choices[1].finish_reason)
        /\ \A p \in Idx("finish") :
             out[p].finishReason \in {"stop", "length", "error", "unknown"})
  /\ [][ReasonStep =>
          finishReason'
            = ReasonTable(input'[Len(input')].value.choices[1].finish_reason)
       ]_vars

C13_Witness ==
  /\ pc = "closed"
  /\ Len(input) = 2
  /\ input[1].value.choices[1].finish_reason = Some("stop")
  /\ input[2].value.choices[1].finish_reason = Some("model_length")
  /\ out[Len(out)].type = "finish"
  /\ out[Len(out)].finishReason = "length"

\* The positions of the non-empty text parts of a content list, and the
\* j-th of them.
TextPositions(parts) ==
  {i \in 1..Len(parts) : parts[i].type = "text" /\ parts[i].text # ""}
NthOf(S, j) == CHOOSE i \in S : Cardinality({k \in S : k <= i}) = j

\* C14: doGenerate's content has, for a list content, one text item per
\* text part with non-empty text, in order, and nothing for other parts;
\* for a string, one text item if it is non-empty; nothing for null or
\* absent content.
C14_GenerateContentItems ==
  pc = "generated" =>
    LET c == received[1].choices[1].message.content
        items == result[1].content
    IN IF c.kind = "array"
       THEN /\ Len(items) = Cardinality(TextPositions(c.parts))
            /\ \A j \in 1..Len(items) :
                 items[j] = [type |-> "text",
                             text |-> c.parts[NthOf(TextPositions(c.parts),
                                                    j)].text]
       ELSE IF c.kind = "string" /\ c.text # ""
            THEN items = <<[type |-> "text", text |-> c.text]>>
            ELSE items = <<>>

C14_Witness ==
  /\ pc = "generated"
  /\ received[1].choices[1].message.content
       = ArrayContent(<<TextPart("H"), TextPart("i")>>)
  /\ Len(result[1].content) = 2
  /\ result[1].content[2].text = "i"

\* C15: doGenerate's usage is prompt_tokens, completion_tokens and
\* total_tokens of the response as inputTokens, outputTokens and
\* totalTokens, and its finishReason is the mapped finish_reason of
\* choices[0].
C15_GenerateUsagePassthrough ==
  pc = "generated" =>
    /\ result[1].usage.inputTokens = <<received[1].usage.prompt_tokens>>
    /\ result[1].usage.outputTokens = <<received[1].usage.completion_tokens>>
    /\ result[1].usage.totalTokens = <<received[1].usage.total_tokens>>
    /\ DOMAIN result[1].usage = {"inputTokens", "outputTokens", "totalTokens"}
    /\ result[1].finishReason
         = ReasonTable(received[1].choices[1].finish_reason)

C15_Witness ==
  /\ pc = "generated"
  /\ received[1].usage = U2
  /\ received[1].choices[1].finish_reason = Some("length")
  /\ result[1].usage.outputTokens = <<32>>
  /\ result[1].usage.totalTokens = <<42>>
  /\ result[1].finishReason = "length"

\* C16 as stated: flattening a plain string returns the string when it is
\* non-empty and undefined when it is empty.
C16_FlattenStringOrUndefined ==
  (pc = "extracted" /\ flatInput.kind = "string")
    => flatOutput = IF flatInput.text # "" THEN <<flatInput.text>> ELSE <<>>

\* C16 amended: flattening a plain string returns that string unchanged,
\* the empty string included.
C16_FlattenStringUnchanged ==
  (pc = "extracted" /\ flatInput.kind = "string")
    => flatOutput = <<flatInput.text>>

C16_Witness ==
  /\ pc = "extracted"
  /\ flatInput = StringContent("")
  /\ flatOutput = <<"">>

MetadataOf(v) ==
  [id |-> v.id, modelId |-> v.model,
   timestamp |-> IF v.created = <<>> THEN <<>>
                 ELSE <<v.created[1] * 1000>>]

\* C18: the response metadata of doGenerate's result and of the
\* response-metadata event are the id and model of the wire envelope and
\* its created value times 1000 as the timestamp, each undefined when
\* absent on the wire.
C18_ResponseMetadataPassthrough ==
  /\ pc = "generated" =>
       /\ result[1].response.id = MetadataOf(received[1]).id
       /\ result[1].response.modelId = MetadataOf(received[1]).modelId
       /\ result[1].response.timestamp = MetadataOf(received[1]).timestamp
  /\ \A p \in Idx("response-metadata") :
       /\ out[p].id = MetadataOf(input[origin[p]].value).id
       /\ out[p].modelId = MetadataOf(input[origin[p]].value).modelId
       /\ out[p].timestamp = MetadataOf(input[origin[p]].value).timestamp

C18_Witness ==
  /\ pc = "closed"
  /\ Len(input) = 1
  /\ input[1].value.created = Some(1711113)
  /\ out[2].type = "response-metadata"
  /\ out[2].timestamp = <<1711113000>>
  /\ out[2].id = input[1].value.id

\* The tracked state and the events of the callbacks run over a list of
\* transport events, from the state st.
RECURSIVE Run(_, _, _)
Run(st, includeRawChunks, evs) ==
  IF evs = <<>> THEN st
  ELSE LET r == transform([st EXCEPT !.emitted = <<>>], includeRawChunks,
                          Head(evs))
       IN Run([r EXCEPT !.emitted = st.emitted \o r.emitted],
              includeRawChunks, Tail(evs))

FreshState ==
  [emitted |-> <<>>, isFirstChunk |-> TRUE, activeText |-> FALSE,
   finishReason |-> "unknown", usage |-> NoUsage, threw |-> FALSE]

\* The stream with its failed transport events removed.
CleanRun ==
  Run(FreshState, call.includeRawChunks,
      SelectSeq(input, LAMBDA ev : ev.success))

\* The events of the stream that no failed transport event produced.
KeptIdx ==
  {p \in 1..Len(out) : origin[p] = 0 \/ input[origin[p]].success}
KeptOut ==
  [j \in 1..Cardinality(KeptIdx) |-> out[NthOf(KeptIdx, j)]]

\* C19: a transport event that failed to parse leaves isFirstChunk,
\* activeText, finishReason and usage as they were, so the tracked state
\* and the events of the stream, the final finish included, are those of
\* the same stream with its failed events removed, apart from the error
\* events and their raw events.
C19_FailedEventsLeaveNoTrace ==
  Started =>
    /\ isFirstChunk = CleanRun.isFirstChunk
    /\ activeText = CleanRun.activeText
    /\ finishReason = CleanRun.finishReason
    /\ usage = CleanRun.usage
    /\ KeptOut = start(warnings) \o CleanRun.emitted
                   \o (IF pc = "closed"
                       THEN flush(CleanRun.activeText, CleanRun.finishReason,
                                  CleanRun.usage)
                       ELSE <<>>)

C19_Witness ==
  /\ pc = "closed"
  /\ Len(input) = 3
  /\ input[1].rawValue = "r3"
  /\ input[2].rawValue = "r2"
  /\ input[3].rawValue = "r5"
  /\ Cardinality(KeptIdx) < Len(out)
  /\ out[Len(out)] = [type |-> "finish", finishReason |-> "stop",
                      usage |-> [inputTokens |-> <<4>>,
                                 outputTokens |-> <<1>>,
                                 totalTokens |-> <<5>>]]

\* C20: response-metadata is emitted at most once, for the first
\* successfully parsed event and with that event's id, timestamp and
\* model name; failed events before it leave the first-chunk flag set, no
\* later chunk's metadata is emitted, and response-metadata comes before
\* every text-start and text-delta.
C20_MetadataOnceBeforeText ==
  /\ Count("response-metadata") = IF ParsedIdx = {} THEN 0 ELSE 1
  /\ isFirstChunk = (ParsedIdx = {})
  /\ \A p \in Idx("response-metadata") :
       /\ origin[p] = Min(ParsedIdx)
       /\ out[p].id = input[Min(ParsedIdx)].value.id
       /\ out[p].modelId = input[Min(ParsedIdx)].value.model
       /\ out[p].timestamp = MetadataOf(input[Min(ParsedIdx)].value).timestamp
       /\ \A q \in Idx("text-start") \cup Idx("text-delta") : p < q

C20_Witness ==
  /\ pc = "closed"
  /\ Len(input) = 3
  /\ ~input[1].success
  /\ input[2].rawValue = "r3"
  /\ input[3].rawValue = "r13"
  /\ Count("response-metadata") = 1
  /\ \A p \in Idx("response-metadata") :
       /\ out[p].id = <<"a">>
       /\ out[p].id # input[3].value.id
       /\ p < Min(Idx("text-start"))

\* The transport events that carry a finish reason on choices[0].
ReasonIdx ==
  {i \in 1..Len(input) :
     /\ input[i].success
     /\ input[i].value.choices # <<>>
     /\ input[i].value.choices[1].finish_reason # None}

LastReason ==
  IF ReasonIdx = {} THEN "unknown"
  ELSE ReasonTable(input[Max(ReasonIdx)].value.choices[1].finish_reason)

\* C21: the finish event's finishReason is the mapped value of the last
\* non-null finish_reason seen on choices[0] of a successfully parsed
\* chunk: a later one overwrites an earlier one, a null one never resets
\* it, and it is unknown when no chunk carried one.
C21_FinishReasonIsLastSeen ==
  /\ finishReason = LastReason
  /\ \A p \in Idx("finish") : out[p].finishReason = LastReason

C21_Witness ==
  /\ pc = "closed"
  /\ Len(input) = 3
  /\ input[1].rawValue = "r5"
  /\ input[2].rawValue = "r13"
  /\ input[3].rawValue = "r3"
  /\ out[Len(out)].type = "finish"
  /\ out[Len(out)].finishReason = "length"

\* The parts of the text-span invariant that concern the events.
SpanEventsWellFormed ==
  /\ Count("text-start") <= 1
  /\ Count("text-end") <= 1
  /\ \A p \in Idx("text-start") \cup Idx("text-delta") \cup Idx("text-end") :
       out[p].id = "0"
  /\ \A p \in Idx("text-delta") :
       /\ out[p].delta # ""
       /\ \E s \in Idx("text-start") : s < p
       /\ \A e \in Idx("text-end") : p < e
  /\ \A e \in Idx("text-end") :
       /\ pc = "closed"
       /\ origin[e] = 0
       /\ e = Len(out) - 1
       /\ \E s \in Idx("text-start") : s < e

\* C22 as stated: in every reachable state activeText is true exactly when
\* a text-start has been emitted and no text-end has been emitted, and the
\* span events are well formed.
C22_ActiveTextIsOpenSpan ==
  /\ activeText <=> (Count("text-start") > 0 /\ Count("text-end") = 0)
  /\ SpanEventsWellFormed

\* C22 amended: activeText is true exactly when a text-start has been
\* emitted, and stays true after the end-of-stream step has emitted the
\* text-end; until that step no text-end exists; the span events are well
\* formed.
C22_ActiveTextIsStartedSpan ==
  /\ activeText <=> Count("text-start") > 0
  /\ pc # "closed" => Count("text-end") = 0
  /\ pc = "closed" => Count("text-end") = Count("text-start")
  /\ SpanEventsWellFormed

C22_Witness ==
  /\ pc = "closed"
  /\ Len(input) = 2
  /\ YieldsText(input[1])
  /\ YieldsText(input[2])
  /\ activeText
  /\ Count("text-start") = 1
  /\ Count("text-delta") = 2
  /\ Count("text-end") = 1

UserIdx == {m \in 1..Len(call.prompt) : call.prompt[m].role = "user"}
TextPartIdx(m) ==
  {k \in 1..Len(call.prompt[m].content) :
     call.prompt[m].content[k].type = "text"}
TextUserIdx == {m \in UserIdx : TextPartIdx(m) # {}}

\* C23 as stated: the wire prompt is the first text part of the first user
\* message, and a first user message without a text part makes the build
\* fail with the empty-prompt error, later user messages not being used.
C23_PromptFromFirstUserMessage ==
  UserIdx # {} =>
    LET m == Min(UserIdx)
    IN IF TextPartIdx(m) = {}
       THEN /\ ~Built
            /\ (pc = "rejected" /\ OptionsValid)
                 => failure = Some("Empty prompt")
       ELSE Built => body[1].prompt
                       = call.prompt[m].content[Min(TextPartIdx(m))].text

\* C23 amended: the wire prompt is the first text part of the first user
\* message that has a text part, user messages without one being skipped;
\* the build fails with the empty-prompt error only when no user message
\* has a text part or that first text is empty.
C23_PromptFromFirstUserMessageWithText ==
  /\ (TextUserIdx # {} /\ Built) =>
       LET m == Min(TextUserIdx)
       IN body[1].prompt = call.prompt[m].content[Min(TextPartIdx(m))].text
  /\ (pc = "rejected" /\ OptionsValid) =>
       /\ failure = Some("Empty prompt")
       /\ \/ TextUserIdx = {}
          \/ LET m == Min(TextUserIdx)
             IN call.prompt[m].content[Min(TextPartIdx(m))].text = ""

C23_Witness ==
  /\ pc = "built"
  /\ call.prompt = <<UserMessage(<<FilePart>>), UserMessage(<<TextPart("P")>>)>>
  /\ Min(UserIdx) = 1
  /\ Min(TextUserIdx) = 2
  /\ body[1].prompt = "P"

\* C24: an option bag whose stop, suffix or min_token is malformed makes
\* the call fail with the validation error before the POST and before any
\* result or stream exists; other keys of the bag never reach the wire
\* request; valid stop, suffix and min_token are forwarded as stop, suffix
\* and min_tokens.
C24_ProviderOptionValidation ==
  /\ ~OptionsValid =>
       /\ posts = 0
       /\ pc \in {"idle", "rejected"}
       /\ pc = "rejected" => failure = Some("InvalidArgumentError")
       /\ body = None /\ out = <<>> /\ result = None
  /\ Built =>
       LET w == jsonBody(body[1])
       IN /\ OptionsValid
          /\ {"other", "min_token"} \cap DOMAIN w = {}
          /\ CarriesOption(w, "stop", "stop")
          /\ CarriesOption(w, "suffix", "suffix")
          /\ CarriesOption(w, "min_tokens", "min_token")

C24_Witness ==
  /\ pc = "rejected"
  /\ call.providerOptions # None
  /\ call.providerOptions[1].stop = Num(1)
  /\ HasUserText
  /\ failure = Some("InvalidArgumentError")
  /\ posts = 0

\* A choices list cut down to its first choice, and the response or
\* transport event whose wire payload has only that choice.
FirstOf(choices) == IF choices = <<>> THEN <<>> ELSE <<choices[1]>>
FirstChoiceResponse(response) ==
  [response EXCEPT !.choices = FirstOf(response.choices)]
FirstChoiceEvent(ev) ==
  IF ev.success /\ Len(ev.value.choices) > 1
  THEN [ev EXCEPT !.value.choices = FirstOf(ev.value.choices),
                  !.rawValue = ev.rawValue \o "[0]"]
  ELSE ev

FirstChoiceRun ==
  Run(FreshState, call.includeRawChunks,
      [i \in 1..Len(input) |-> FirstChoiceEvent(input[i])])
FirstChoiceOut ==
  start(warnings) \o FirstChoiceRun.emitted
    \o (IF pc = "closed"
        THEN flush(FirstChoiceRun.activeText, FirstChoiceRun.finishReason,
                   FirstChoiceRun.usage)
        ELSE <<>>)

NotRaw(e) == e.type # "raw"
WithoutBody(res) ==
  [res EXCEPT !.response = [k \in DOMAIN res.response \ {"body"}
                              |-> res.response[k]]]

\* C25 as stated: a response, or a chunk sequence, gives the same result,
\* or the same event sequence, as the one that differs from it only in
\* the choices at index 1 and above.
C25_OnlyFirstChoiceInOutput ==
  /\ pc = "generated" =>
       result[1] = doGenerateResult(body[1], warnings,
                                    FirstChoiceResponse(received[1]))
  /\ Started => out = FirstChoiceOut

\* C25 amended: the content, finish reason, usage and response metadata
\* of a result, and every event of a stream other than its raw events,
\* are those of the response or chunk sequence cut down to choices[0];
\* the raw body of the result and the raw events carry the wire payload
\* as it is, further choices included.
C25_OnlyFirstChoiceNormalized ==
  /\ pc = "generated" =>
       /\ WithoutBody(result[1])
            = WithoutBody(doGenerateResult(body[1], warnings,
                                           FirstChoiceResponse(received[1])))
       /\ result[1].response.body = rawResponse(received[1])
  /\ Started =>
       /\ SelectSeq(out, NotRaw) = SelectSeq(FirstChoiceOut, NotRaw)
       /\ finishReason = FirstChoiceRun.finishReason
       /\ activeText = FirstChoiceRun.activeText
       /\ \A p \in Idx("raw") : out[p].rawValue = input[origin[p]].rawValue

C25_Witness ==
  /\ pc = "generated"
  /\ Len(received[1].choices) = 2
  /\ received[1].choices[2].finish_reason = Some("stop")
  /\ result[1].content = <<TextItem("H")>>
  /\ result[1].finishReason = "length"
  /\ Len(result[1].response.body.choices) = 2

\* The texts of a list of content items, and of the text-delta events of
\* a list of events.
ItemTexts(items) == [i \in 1..Len(items) |-> items[i].text]
DeltaTexts(events) ==
  [i \in 1..Len(SelectSeq(events, IsDelta))
     |-> SelectSeq(events, IsDelta)[i].delta]

\* What the stream callbacks enqueue for a single chunk whose delta has
\* the content c, and what doGenerate puts in its content for a message
\* with the content c.
StreamOf(c) ==
  transform(FreshState, FALSE,
            Parsed("r0", ChunkValue("z", <<Choice(c, None)>>, None))).emitted
GenerateOf(c) ==
  doGenerateResult(NoArgs, <<>>,
                   FullResponse(<<MessageChoice(c, None)>>, U1)).content

\* C26: for every content value the text items of doGenerate, put
\* together, are the text-delta events of doStream for a single chunk with
\* that content, put together, and one path has no text exactly when the
\* other has none.
C26_SyncAndStreamTextAgree ==
  /\ pc = "generated" =>
       LET c == received[1].choices[1].message.content
       IN /\ JoinText(ItemTexts(result[1].content))
               = JoinText(DeltaTexts(StreamOf(c)))
          /\ result[1].content = <<>> <=> DeltaTexts(StreamOf(c)) = <<>>
  /\ (Started /\ Len(input) = 1 /\ input[1].success
        /\ input[1].value.choices # <<>>) =>
       LET c == input[1].value.choices[1].delta.content
       IN /\ JoinText(DeltaTexts(out)) = JoinText(ItemTexts(GenerateOf(c)))
          /\ DeltaTexts(out) = <<>> <=> GenerateOf(c) = <<>>

C26_Witness ==
  /\ pc = "generated"
  /\ received[1].choices[1].message.content
       = ArrayContent(<<TextPart("H"), TextPart("i")>>)
  /\ ItemTexts(result[1].content) = <<"H", "i">>
  /\ DeltaTexts(StreamOf(received[1].choices[1].message.content)) = <<"Hi">>

\* What call s emits when it is the only stream: the callbacks run over
\* its own transport events from a fresh tracked state.
AloneRun(s) ==
  Run(FreshState, pair.calls[s].includeRawChunks, pair.inputs[s])
AloneOut(s) ==
  start(getArgsWarnings(pair.calls[s])) \o AloneRun(s).emitted
    \o (IF pair.pcs[s] = "closed"
        THEN flush(AloneRun(s).activeText, AloneRun(s).finishReason,
                   AloneRun(s).usage)
        ELSE <<>>)

\* C27: of two streams started from one model instance and consumed with
\* their transport events interleaved in any order, each emits exactly the
\* events it emits when run alone, stream-start warnings, usage and finish
\* reason of the finish event included.
C27_InterleavedStreamsAreIsolated ==
  \A s \in {1, 2} :
    IF pair.pcs[s] = "idle"
    THEN pair.outs[s] = <<>>
    ELSE /\ pair.outs[s] = AloneOut(s)
         /\ pair.warnings[s] = getArgsWarnings(pair.calls[s])

C27_Witness ==
  /\ pair.pcs = <<"closed", "closed">>
  /\ pair.calls[1] # pair.calls[2]
  /\ Len(pair.inputs[1]) = 2 /\ Len(pair.inputs[2]) = 2
  /\ pair.inputs[1][1].rawValue = "r3" /\ pair.inputs[1][2].rawValue = "r5"
  /\ pair.inputs[2][1].rawValue = "r1" /\ pair.inputs[2][2].rawValue = "r13"
  /\ pair.outs[1][Len(pair.outs[1])].finishReason = "stop"
  /\ pair.outs[2][Len(pair.outs[2])].finishReason = "length"
  /\ pair.outs[1][1].warnings # pair.outs[2][1].warnings

\* C28: every response and every chunk the schemas accept is normalised
\* without raising, whatever the length of its choices list: doGenerate
\* never fails on a received response, and no chunk puts the stream into
\* an errored state in which text-end and finish are never emitted.
C28_FirstChoiceIsSafe ==
  /\ received # None => pc = "generated" /\ failure = None
  /\ pc # "errored"
  /\ failure # Some("TypeError")

====
